---- MODULE Spec2Model ----
(***************************************************************************)
(* A model of the New Tab Train-hop Station extension:                     *)
(*   - the background script (identifier resolver with its persistent      *)
(*     cache, schedule gateway, revision data join, file comparison),      *)
(*   - the <train-check-app> element (TrainCheckApp) and                   *)
(*   - the <locales-results> element (LocalesResults).                     *)
(*                                                                         *)
(* Calendar dates ("YYYY-MM-DD" strings and Temporal.PlainDate values) are *)
(* triples <<year, month, day>>; the empty tuple stands for null or        *)
(* undefined where a date is expected.                                     *)
(***************************************************************************)
EXTENDS Integers, Sequences, FiniteSets, TLC

VARIABLES
    \* LocalesResults (locales-results.mjs): properties, the clock, the output
    localesReport, betaStartDate, releaseStartDate, now, localesOut,
    \* compareNewtabFtlFileInfos: its two arguments and its return value
    newtabFtlInfo, webextGlueFtlInfo, ftlComparison,
    \* Identifier resolver (getHgSha / getGitSha): browser.storage.local, the
    \* calls in progress, each caller's last response, and a record of the
    \* conversion requests issued and of the values returned
    storage, call, reply, fetchCount, returned, started,
    \* Schedule gateway (getBetaAndReleaseDates): the two schedule responses
    \* and the merge dates returned
    betaResponse, releaseResponse, mergeDates,
    \* CI data (getPushData): the responses to the push query and to the jobs
    \* query, and what the call came to, with the queries it issued
    pushResponse, jobsResponse, pushDataOut,
    \* handleMessage: of every handler that can run at a time, the message it
    \* received last and the response to it
    received, response,
    \* TrainCheckApp (app.mjs): its reactive properties, the button as last
    \* rendered,
    sha, shaType, loading, results, buttonDisabled,
    \* the position of #checkTrainStatus (the message or prompt it waits on)
    \* and its locals,
    pc, shaToCheck, gitSha, hgSha, revisionData,
    \* and a record of the check in progress: the messages sent to the
    \* background script (browser.runtime.sendMessage), in order, how
    \* the branches of getRevisionData's join settled, the prompt declined,
    \* whether an alert was shown, and where the check failed
    requests, lastJoin, declined, alerted, failedAt,
    \* and the response of the background script on its way to the page
    answer

lrVars == <<localesReport, betaStartDate, releaseStartDate, now, localesOut>>
ftlVars == <<newtabFtlInfo, webextGlueFtlInfo, ftlComparison>>
rsVars == <<storage, call, reply, fetchCount, returned, started>>
sgVars == <<betaResponse, releaseResponse, mergeDates>>
ciVars == <<pushResponse, jobsResponse, pushDataOut>>
hmVars == <<received, response>>
appVars == <<sha, shaType, loading, results, buttonDisabled, pc, shaToCheck, gitSha, hgSha, revisionData,
             requests, lastJoin, declined, alerted, failedAt, answer>>
vars == <<lrVars, ftlVars, rsVars, sgVars, ciVars, hmVars, appVars>>

\* What the steps of one component leave alone.
LrFrame == UNCHANGED <<ftlVars, rsVars, sgVars, ciVars, hmVars, appVars>>
FtlFrame == UNCHANGED <<lrVars, rsVars, sgVars, ciVars, hmVars, appVars>>
RsFrame == UNCHANGED <<lrVars, ftlVars, sgVars, ciVars, hmVars, appVars>>
SgFrame == UNCHANGED <<lrVars, ftlVars, rsVars, ciVars, hmVars, appVars>>
CiFrame == UNCHANGED <<lrVars, ftlVars, rsVars, sgVars, hmVars, appVars>>
HmFrame == UNCHANGED <<lrVars, ftlVars, sgVars, ciVars, appVars>>
AppFrame == UNCHANGED <<lrVars, ftlVars, sgVars, ciVars, hmVars,
                        call, reply, fetchCount, returned, started>>

----------------------------------------------------------------------------
(* Calendar arithmetic of Temporal.PlainDate and Date (proleptic Gregorian) *)

NullDate == <<>>

IsLeapYear(y) == (y % 4 = 0 /\ y % 100 /= 0) \/ y % 400 = 0

DaysInMonth(y, m) ==
    IF m = 2 THEN (IF IsLeapYear(y) THEN 29 ELSE 28)
    ELSE IF m \in {4, 6, 9, 11} THEN 30 ELSE 31

\* Temporal.PlainDate.from(string) throws on anything but a real ISO date.
IsISODate(s) ==
    /\ Len(s) = 3
    /\ s[2] \in 1..12
    /\ s[3] \in 1..DaysInMonth(s[1], s[2])

\* Days since 1970-01-01.
EpochDays(date) ==
    LET y   == IF date[2] <= 2 THEN date[1] - 1 ELSE date[1]
        era == y \div 400
        yoe == y - era * 400
        mp  == IF date[2] > 2 THEN date[2] - 3 ELSE date[2] + 9
        doy == (153 * mp + 2) \div 5 + date[3] - 1
        doe == yoe * 365 + yoe \div 4 - yoe \div 100 + doy
    IN  era * 146097 + doe - 719468

DateFromEpochDays(n) ==
    LET z   == n + 719468
        era == z \div 146097
        doe == z - era * 146097
        yoe == (doe - doe \div 1460 + doe \div 36524 - doe \div 146096) \div 365
        doy == doe - (365 * yoe + yoe \div 4 - yoe \div 100)
        mp  == (5 * doy + 2) \div 153
        d   == doy - (153 * mp + 2) \div 5 + 1
        m   == IF mp < 10 THEN mp + 3 ELSE mp - 9
        y   == yoe + era * 400 + (IF m <= 2 THEN 1 ELSE 0)
    IN  <<y, m, d>>

Sign(n) == IF n < 0 THEN -1 ELSE IF n > 0 THEN 1 ELSE 0

\* Temporal.PlainDate.compare(one, two): -1, 0 or 1.
PlainDateCompare(one, two) == Sign(EpochDays(one) - EpochDays(two))

\* one.since(two) with the default largestUnit "day": a duration of days.
PlainDateSince(one, two) == [weeks |-> 0, days |-> EpochDays(one) - EpochDays(two)]

\* Temporal.Duration.compare(one, two, {relativeTo: <PlainDate>}): with a
\* plain date as reference a week is seven 24-hour days.
DurationCompareTieIsLonger(one, two) ==
    IF (one.weeks * 7 + one.days) >= (two.weeks * 7 + two.days) THEN 1 ELSE -1

DurationCompare(one, two) ==
    Sign((one.weeks * 7 + one.days) - (two.weeks * 7 + two.days))

\* JavaScript truthiness of a number.
TruthyNumber(n) == n /= 0

\* The elements of an array.
Range(seq) == {seq[i] : i \in 1..Len(seq)}

----------------------------------------------------------------------------
(* LocalesResults.#localesReport (locales-results.mjs)                     *)

TRACKED_FILE == "browser/newtab/newtab.ftl"

betaFallbackThreshold == [weeks |-> 3, days |-> 0]

\* The condition of the if statement that sends a key to missingStrings.
IsMissingStringNoBetaTest(introducedDate, releaseStart, betaStart, today) ==
    \/ PlainDateCompare(introducedDate, releaseStart) = -1
    \/ DurationCompare(PlainDateSince(today, betaStart), betaFallbackThreshold) = 1

IsMissingStringFromBetaOn(introducedDate, releaseStart, betaStart, today) ==
    \/ PlainDateCompare(introducedDate, releaseStart) = -1
    \/ /\ PlainDateCompare(introducedDate, betaStart) >= 0
       /\ DurationCompare(PlainDateSince(today, betaStart), betaFallbackThreshold) = 1

IsMissingString(introducedDate, releaseStart, betaStart, today) ==
    \/ PlainDateCompare(introducedDate, releaseStart) = -1
    \/ /\ TruthyNumber(PlainDateCompare(introducedDate, betaStart))
       /\ DurationCompare(PlainDateSince(today, betaStart), betaFallbackThreshold) = 1

\* One iteration's push: the key goes onto exactly one of the two lists.
PushStringDropPending(lists, fluentKey, isMissing) ==
    IF isMissing
    THEN [missing |-> Append(lists.missing, fluentKey), pending |-> lists.pending]
    ELSE lists

PushString(lists, fluentKey, isMissing) ==
    IF isMissing
    THEN [missing |-> Append(lists.missing, fluentKey), pending |-> lists.pending]
    ELSE [missing |-> lists.missing, pending |-> Append(lists.pending, fluentKey)]

\* The for loop over missingOrPendingStrings, in list order.
RECURSIVE ClassifyStrings(_, _, _, _, _)
ClassifyStrings(keys, dates, releaseStart, betaStart, today) ==
    IF keys = <<>> THEN [missing |-> <<>>, pending |-> <<>>]
    ELSE LET n == Len(keys)
         IN  PushString(ClassifyStrings(SubSeq(keys, 1, n - 1), dates,
                                        releaseStart, betaStart, today),
                        keys[n],
                        IsMissingString(dates[keys[n]], releaseStart, betaStart, today))

\* locales[key].missing?.[TRACKED_FILE] is undefined or an array; an array,
\* even an empty one, is truthy.
UndefinedList == [defined |-> FALSE, keys |-> <<>>]
TruthyList(list) == list.defined

\* What reportKeys.map(...) returns for one locale: null, or the <details>
\* element with its two lists.
NoDetails == [shown |-> FALSE, missing |-> <<>>, pending |-> <<>>]

LocaleDetails(report, locale, releaseStart, betaStart, today) ==
    LET missingOrPendingStrings == report.locales[locale]
    IN  IF TruthyList(missingOrPendingStrings)
        THEN LET c == ClassifyStrings(missingOrPendingStrings.keys, report.message_dates,
                                      releaseStart, betaStart, today)
             IN  [shown |-> TRUE, missing |-> c.missing, pending |-> c.pending]
        ELSE NoDetails

----------------------------------------------------------------------------
(* Inputs of the LocalesResults element                                    *)

Locales == {"de", "fr"}
FluentKeys == {"k1", "k2"}
MaxMissing == 2

IntroDates == {<<2023, 12, 29>>, <<2023, 12, 30>>, <<2023, 12, 31>>, <<2024, 1, 1>>,
               <<2024, 1, 15>>}
ReleaseStarts == {<<2023, 12, 30>>, <<2024, 1, 2>>}
BetaStarts == {<<2024, 1, 1>>, <<2024, 1, 2>>}
Todays == {<<2024, 1, 10>>, <<2024, 1, 22>>, <<2024, 1, 23>>}

KeyLists == UNION {[1..n -> FluentKeys] : n \in 0..MaxMissing}
MissingLists == {UndefinedList} \cup {[defined |-> TRUE, keys |-> l] : l \in KeyLists}

NotRendered == [rendered |-> FALSE, details |-> [l \in Locales |-> NoDetails]]

LrIdle ==
    /\ localesReport = [locales |-> [l \in Locales |-> UndefinedList],
                        message_dates |-> [k \in FluentKeys |-> <<2024, 1, 1>>]]
    /\ betaStartDate = <<2024, 1, 1>>
    /\ releaseStartDate = <<2023, 12, 30>>
    /\ now = <<2024, 1, 10>>
    /\ localesOut = NotRendered

LrInit ==
    /\ localesReport \in [locales : [Locales -> MissingLists],
                          message_dates : [FluentKeys -> IntroDates]]
    /\ betaStartDate \in BetaStarts
    /\ releaseStartDate \in ReleaseStarts
    /\ now \in Todays
    /\ localesOut = NotRendered

\* LocalesResults.render -> #localesReport(): the dates are parsed, the clock
\* is read, and every locale of the report is mapped.
LocalesReportRender ==
    /\ ~localesOut.rendered
    /\ IsISODate(releaseStartDate) /\ IsISODate(betaStartDate)
    /\ localesOut' = [rendered |-> TRUE,
                      details |-> [l \in Locales |->
                          LocaleDetails(localesReport, l, releaseStartDate,
                                        betaStartDate, now)]]
    /\ UNCHANGED <<localesReport, betaStartDate, releaseStartDate, now>>
    /\ LrFrame

----------------------------------------------------------------------------
(* compareNewtabFtlFileInfos (background script)                           *)

MS_PER_DAY == 1000 * 60 * 60 * 24

\* new Date(a).getTime() - new Date(b).getTime(), in milliseconds. A
\* timestamp is its calendar date and the milliseconds elapsed of that (UTC)
\* day; the difference is taken per component, which keeps the numbers of
\* nearby timestamps small.
GetTimeDiff(a, b) ==
    (EpochDays(a.date) - EpochDays(b.date)) * MS_PER_DAY + (a.msOfDay - b.msOfDay)

\* Math.round(num / den) for den > 0: the nearest integer, a tie going up.
MathRoundDiv(num, den) == (2 * num + den) \div (2 * den)

Abs(n) == IF n < 0 THEN -n ELSE n

compareNewtabFtlFileInfos(mainInfo, webextInfo) ==
    LET timeDiff == GetTimeDiff(mainInfo.lastModifiedDate, webextInfo.lastModifiedDate)
        daysDiff == MathRoundDiv(timeDiff, MS_PER_DAY)
    IN  IF timeDiff > 0
        THEN [status |-> "main-newer", message |-> <<"main newer by days", Abs(daysDiff)>>,
              daysDiff |-> daysDiff]
        ELSE IF timeDiff < 0
        THEN [status |-> "webext-newer", message |-> <<"webext newer by days", Abs(daysDiff)>>,
              daysDiff |-> daysDiff]
        ELSE [status |-> "in-sync", message |-> <<"in sync", 0>>, daysDiff |-> daysDiff]

NEWTAB_FTL == "browser/locales/en-US/browser/newtab/newtab.ftl"
WEBEXT_GLUE_FTL ==
    "browser/extensions/newtab/webext-glue/locales/en-US/browser/newtab/newtab.ftl"

\* Inputs: commit dates around 2024-06-09 and times of day on both sides of
\* noon, so that differences fall on both sides of half a day.
CommitDays == 2
CommitDates == {DateFromEpochDays(EpochDays(<<2024, 6, 8>>) + i) : i \in 0..(CommitDays - 1)}
TimesOfDay == {0, 1, MS_PER_DAY \div 2 - 1, MS_PER_DAY \div 2, MS_PER_DAY \div 2 + 1,
               MS_PER_DAY - 1}
Stamps == [date : CommitDates, msOfDay : TimesOfDay]

NotCompared == [status |-> "none", message |-> <<"none", 0>>, daysDiff |-> 0]

FtlIdle ==
    /\ newtabFtlInfo = [path |-> NEWTAB_FTL,
                        lastModifiedDate |-> [date |-> <<2024, 6, 8>>, msOfDay |-> 0]]
    /\ webextGlueFtlInfo = [path |-> WEBEXT_GLUE_FTL,
                            lastModifiedDate |-> [date |-> <<2024, 6, 8>>, msOfDay |-> 0]]
    /\ ftlComparison = NotCompared

FtlInit ==
    /\ newtabFtlInfo \in [path : {NEWTAB_FTL}, lastModifiedDate : Stamps]
    /\ webextGlueFtlInfo \in [path : {WEBEXT_GLUE_FTL}, lastModifiedDate : Stamps]
    /\ ftlComparison = NotCompared

\* getRevisionData's call of compareNewtabFtlFileInfos on the two file infos.
CompareFtl ==
    /\ ftlComparison = NotCompared
    /\ ftlComparison' = compareNewtabFtlFileInfos(newtabFtlInfo, webextGlueFtlInfo)
    /\ UNCHANGED <<newtabFtlInfo, webextGlueFtlInfo>>
    /\ FtlFrame

----------------------------------------------------------------------------
(* Identifier resolver: getHgSha and getGitSha (background script)         *)

GIT2HG == "git2hg"
HG2GIT == "hg2git"
Directions == {GIT2HG, HG2GIT}

GitShas == {"g1", "g2"}
HgShas == {"h1", "h2"}
Shas == GitShas \cup HgShas

\* The value a lookup yields for an absent key, and what a failed or
\* unanswered request carries: undefined. Commit hashes are non-empty
\* strings, so every hash is truthy and undefined is not.
Undefined == ""
Truthy(v) == v /= Undefined

\* The conversion service's data: the commits known to both repositories.
HgOfGit == [g \in GitShas |-> IF g = "g1" THEN "h1" ELSE "h2"]
GitOfHg == [h \in HgShas |-> IF h = "h1" THEN "g1" ELSE "g2"]

\* data.hg_hash / data.git_hash of a successful conversion response, or
\* Undefined when the service does not know the id (a non-ok response).
LandoLookup(direction, id) ==
    IF direction = GIT2HG
    THEN (IF id \in GitShas THEN HgOfGit[id] ELSE Undefined)
    ELSE (IF id \in HgShas THEN GitOfHg[id] ELSE Undefined)

\* const cacheKey = `git2hg:${gitSha}` / `hg2git:${hgSha}`
CacheKeyWithoutDirection(direction, id) == <<GIT2HG, id>>
CacheKeyWithoutId(direction, id) == <<direction, "g1">>

CacheKey(direction, id) == <<direction, id>>
CacheKeys == Directions \X Shas

\* if (result[cacheKey]) return result[cacheKey];
CacheHitNever(store, key) == FALSE

CacheHit(store, key) == Truthy(store[key])

\* browser.storage.local.set({ [cacheKey]: value })
StorageSetSkipped(store, key, value) == store

StorageSetDroppingOld(store, key, value) ==
    [store EXCEPT ![key] = IF Truthy(@) THEN Undefined ELSE value]

StorageSet(store, key, value) == [store EXCEPT ![key] = value]

\* handleMessage's two shapes of response; were the error rethrown, the
\* listener's promise would reject.
Rethrown(error) == [success |-> FALSE, data |-> Undefined, error |-> "Uncaught (in promise)"]

Success(data) == [success |-> TRUE, data |-> data, error |-> ""]
Failure(message) == [success |-> FALSE, data |-> Undefined, error |-> message]
NoReply == [success |-> FALSE, data |-> Undefined, error |-> "none"]

\* What fetch() rejects with, and what response.json() and JSON.parse throw
\* on a text that is not JSON.
NETWORK_ERROR == "NetworkError when attempting to fetch resource."
SYNTAX_ERROR == "JSON.parse: unexpected character at line 1 column 1 of the JSON data"

ConversionError(direction) ==
    IF direction = GIT2HG THEN "Failed to convert Git SHA to Mercurial"
    ELSE "Failed to convert Mercurial SHA to Git"

\* What the conversion request comes to: "ok" (the service answers from its
\* data, with a non-ok status for an id it does not know), "status" (a
\* non-ok status), "neterr" (fetch rejects) or "badjson" (an ok response
\* whose body response.json() cannot parse); whether the call gets a value,
\* and the message of the error it throws otherwise.
ConversionOutcomes == {"ok", "status", "neterr", "badjson"}
Converted(direction, id, outcome) == outcome = "ok" /\ Truthy(LandoLookup(direction, id))
ConversionThrown(direction, outcome) ==
    IF outcome = "neterr" THEN NETWORK_ERROR
    ELSE IF outcome = "badjson" THEN SYNTAX_ERROR
    ELSE ConversionError(direction)

MaxCallers == 2
MaxCalls == 3
Callers == 1..MaxCallers

\* The object storage.local.get(cacheKey) resolves to: the entry of that key
\* as the store held it when the read was processed.
StorageGet(store, key) == [k \in {key} |-> store[k]]

IdleCall ==
    [pc |-> "idle", direction |-> GIT2HG, id |-> "g1",
     result |-> [k \in {CacheKey(GIT2HG, "g1")} |-> Undefined], value |-> Undefined]

RsIdle ==
    /\ storage = [k \in CacheKeys |-> Undefined]
    /\ call = [p \in Callers |-> IdleCall]
    /\ reply = [p \in Callers |-> NoReply]
    /\ fetchCount = [k \in CacheKeys |-> 0]
    /\ returned = [k \in CacheKeys |-> <<>>]
    /\ started = 0

\* getHgSha / getGitSha is called: the read of the cache is issued and the
\* store answers it from what it holds; the call waits for that answer.
ReadCache(p, direction, id) ==
    /\ call[p].pc = "idle"
    /\ started < MaxCalls
    /\ started' = started + 1
    /\ call' = [call EXCEPT ![p] = [pc |-> "reading", direction |-> direction, id |-> id,
                                    result |-> StorageGet(storage, CacheKey(direction, id)),
                                    value |-> Undefined]]
    /\ reply' = [reply EXCEPT ![p] = NoReply]
    /\ UNCHANGED <<storage, fetchCount, returned>>

\* A GET_HG_SHA or GET_GIT_SHA message arrives.
ResolverCall(p, direction, id) ==
    /\ ReadCache(p, direction, id)
    /\ RsFrame

\* The answer of the cache read is delivered: with an entry in it the call
\* returns the entry, without one the conversion request is issued (whatever
\* the store has come to hold since the read).
CacheReadDone(p) ==
    LET c == call[p]
        key == CacheKey(c.direction, c.id)
    IN
    /\ c.pc = "reading"
    /\ IF CacheHit(c.result, key)
       THEN /\ reply' = [reply EXCEPT ![p] = Success(c.result[key])]
            /\ returned' = [returned EXCEPT ![key] =
                               Append(@, [data |-> c.result[key], fetched |-> 0])]
            /\ call' = [call EXCEPT ![p] = IdleCall]
            /\ UNCHANGED fetchCount
       ELSE /\ call' = [call EXCEPT ![p].pc = "fetching"]
            /\ fetchCount' = [fetchCount EXCEPT ![key] = @ + 1]
            /\ UNCHANGED <<reply, returned>>
    /\ UNCHANGED <<storage, started>>
    /\ RsFrame

\* The conversion request settles: a rejection, a non-ok response or a body
\* that is not JSON throws, an ok response is parsed and the write of the
\* cache entry is issued. The store applies the
\* write when it is issued (applied) or while the call waits for it.
ConversionResponse(p, outcome, applied) ==
    LET c == call[p]
        value == LandoLookup(c.direction, c.id)
    IN
    /\ c.pc = "fetching"
    /\ IF Converted(c.direction, c.id, outcome)
       THEN /\ call' = [call EXCEPT ![p].pc = IF applied THEN "stored" ELSE "storing",
                                    ![p].value = value]
            /\ storage' = IF applied
                          THEN StorageSet(storage, CacheKey(c.direction, c.id), value)
                          ELSE storage
            /\ UNCHANGED reply
       ELSE /\ ~applied
            /\ call' = [call EXCEPT ![p] = IdleCall]
            /\ reply' = [reply EXCEPT ![p] = Failure(ConversionThrown(c.direction, outcome))]
            /\ UNCHANGED storage
    /\ UNCHANGED <<fetchCount, returned, started>>
    /\ RsFrame

\* The store applies a write that was issued; the call still waits.
StorageSetApplied(p) ==
    LET c == call[p] IN
    /\ c.pc = "storing"
    /\ storage' = StorageSet(storage, CacheKey(c.direction, c.id), c.value)
    /\ call' = [call EXCEPT ![p].pc = "stored"]
    /\ UNCHANGED <<reply, fetchCount, returned, started>>
    /\ RsFrame

\* The completion of the cache write is delivered and the converted value
\* is returned.
StorageSetDone(p) ==
    LET c == call[p]
        key == CacheKey(c.direction, c.id)
    IN
    /\ c.pc = "stored"
    /\ reply' = [reply EXCEPT ![p] = Success(c.value)]
    /\ returned' = [returned EXCEPT ![key] = Append(@, [data |-> c.value, fetched |-> 1])]
    /\ call' = [call EXCEPT ![p] = IdleCall]
    /\ UNCHANGED <<storage, fetchCount, started>>
    /\ RsFrame

----------------------------------------------------------------------------
(* Schedule gateway: getBetaAndReleaseDates (background script)            *)

\* What one fetch of the schedule service comes to:
\*   "neterr"  - fetch() rejects (network error)
\*   "status"  - a response whose ok is false
\*   "badjson" - an ok response whose body response.json() cannot parse
\*   "json"    - an ok response; date is its merge_day / beta_1 field, which
\*               Temporal.PlainDate.from accepts only if it is a real date
ResponseKinds == {"neterr", "status", "badjson", "json"}

Rejected(r) == r.kind = "neterr"
ResponseOk(r) == r.kind \in {"badjson", "json"}
\* response.json() or Temporal.PlainDate.from(...) throws
PayloadThrows(r) == r.kind = "badjson" \/ (r.kind = "json" /\ ~IsISODate(r.date))

\* Temporal.PlainDate dayOfWeek: 1 for Monday ... 7 for Sunday.
DayOfWeek(date) == ((EpochDays(date) + 3) % 7) + 1

\* date.subtract({ days: n })
SubtractDays(date, n) == DateFromEpochDays(EpochDays(date) - n)

\* The Monday on or before the first beta build's date.
ReleaseStartOfSundayWeek(beta1) == SubtractDays(beta1, DayOfWeek(beta1) % 7)

ReleaseStartOf(beta1) == SubtractDays(beta1, (DayOfWeek(beta1) + 6) % 7)

NoMergeDates == [betaStartDate |-> NullDate, releaseStartDate |-> NullDate]

getBetaAndReleaseDatesUnparsed(beta, release) ==
    IF Rejected(beta) \/ Rejected(release)
    THEN NoMergeDates
    ELSE [betaStartDate |-> IF ResponseOk(beta) THEN beta.date ELSE NullDate,
          releaseStartDate |-> IF ResponseOk(release) THEN release.date ELSE NullDate]

getBetaAndReleaseDates(beta, release) ==
    IF Rejected(beta) \/ Rejected(release)
    THEN NoMergeDates                             \* Promise.all rejects: catch
    ELSE IF ResponseOk(beta) /\ PayloadThrows(beta)
    THEN NoMergeDates                             \* thrown in the beta block: catch
    ELSE IF ResponseOk(release) /\ PayloadThrows(release)
    THEN NoMergeDates                             \* thrown in the release block: catch
    ELSE [betaStartDate |-> IF ResponseOk(beta) THEN beta.date ELSE NullDate,
          releaseStartDate |->
              IF ResponseOk(release) THEN ReleaseStartOf(release.date) ELSE NullDate]

\* Inputs: every kind of failure, a payload without the field, a payload
\* whose field is no date, and the dates of ScheduleDays consecutive days
\* from Monday 2024-02-26 (across the leap day) plus the two of the spec.
ScheduleDays == 7
ScheduleDates ==
    {DateFromEpochDays(EpochDays(<<2024, 2, 26>>) + i) : i \in 0..(ScheduleDays - 1)}
        \cup {<<2024, 3, 18>>, <<2024, 3, 20>>}
ScheduleResponses ==
    [kind : {"neterr", "status", "badjson"}, date : {NullDate}]
        \cup [kind : {"json"}, date : ScheduleDates \cup {NullDate, <<2024, 13, 45>>}]

NotFetched == [kind |-> "status", date |-> NullDate]
MergeDatesPending == [betaStartDate |-> <<0>>, releaseStartDate |-> <<0>>]

SgIdle ==
    /\ betaResponse = NotFetched
    /\ releaseResponse = NotFetched
    /\ mergeDates = MergeDatesPending

SgInit ==
    /\ betaResponse \in ScheduleResponses
    /\ releaseResponse \in ScheduleResponses
    /\ mergeDates = MergeDatesPending

\* One call of getBetaAndReleaseDates with the two fetches settled.
GetMergeDates ==
    /\ mergeDates = MergeDatesPending
    /\ mergeDates' = getBetaAndReleaseDates(betaResponse, releaseResponse)
    /\ UNCHANGED <<betaResponse, releaseResponse>>
    /\ SgFrame

----------------------------------------------------------------------------
(* Background handlers as TrainCheckApp sees them: one message, one        *)
(* response (handleMessage)                                                *)

\* getHgSha / getGitSha from call to return, for a caller that has the
\* background script to itself: the store afterwards and the response.
ResolveWhole(store, direction, id, outcome) ==
    LET key == CacheKey(direction, id)
        value == LandoLookup(direction, id)
    IN  IF CacheHit(store, key)
        THEN [store |-> store, reply |-> Success(store[key])]
        ELSE IF Converted(direction, id, outcome)
        THEN [store |-> StorageSet(store, key, value), reply |-> Success(value)]
        ELSE [store |-> store, reply |-> Failure(ConversionThrown(direction, outcome))]

\* validateSha: the commit lookup answers ok, 404 or another status, fetch
\* rejects, or the body is not JSON.
ValidateOutcomes == {"ok", "404", "500", "neterr", "badjson"}
validateSha(id, outcome) ==
    IF outcome = "ok" THEN Success(id)
    ELSE IF outcome = "404" THEN Failure("SHA not found in repository")
    ELSE IF outcome = "neterr" THEN Failure(NETWORK_ERROR)
    ELSE IF outcome = "badjson" THEN Failure(SYNTAX_ERROR)
    ELSE Failure("Failed to validate SHA")

\* getLatestSha: the commit list answers with a newest commit, with no
\* commit, or with a non-ok status, fetch rejects, or the body is not JSON.
LatestCommits == {"g2"}
LatestOutcomes == LatestCommits \cup {"none", "500", "neterr", "badjson"}
getLatestSha(outcome) ==
    IF outcome \in LatestCommits THEN Success(outcome)
    ELSE IF outcome = "none" THEN Failure("No commits found")
    ELSE IF outcome = "neterr" THEN Failure(NETWORK_ERROR)
    ELSE IF outcome = "badjson" THEN Failure(SYNTAX_ERROR)
    ELSE Failure("Failed to fetch commits")

\* The branches of getRevisionData's Promise.all that can reject, and the
\* messages of the errors each can reject with (paths, ids and status codes
\* left out):
\*   getPushData       - the fetches reject, a non-ok status of either query,
\*                       a body that is not JSON, no push in the results
\*   getGitHubFileInfo - fetch rejects; a 404 reaches the throw that reads
\*                       fileData, which is not defined there (a
\*                       ReferenceError); another non-ok status; a body that
\*                       is not JSON; an empty list of commits, whose first
\*                       element is undefined
\*   getGitHubFile     - fetch rejects; 404; another non-ok status; a body
\*                       that is not JSON
Branches == {"pushData", "newtabFtlInfo", "webextGlueFtlInfo", "localesReport"}
BranchErrors ==
    [b \in Branches |->
        IF b = "pushData"
        THEN {NETWORK_ERROR, "Failed to fetch push data from Treeherder",
              "No push data found for Mercurial SHA",
              "Failed to fetch trainhop jobs from Treeherder", SYNTAX_ERROR}
        ELSE IF b = "localesReport"
        THEN {NETWORK_ERROR, "File not found", "Failed to fetch file", SYNTAX_ERROR}
        ELSE {NETWORK_ERROR, "fileData is not defined", "Failed to fetch file info",
              SYNTAX_ERROR, "can't access property \"commit\", commitInfo is undefined"}]

NoJoin == [ran |-> FALSE, ok |-> [b \in Branches |-> TRUE]]
JoinOutcomes == [ran : {TRUE}, ok : [Branches -> BOOLEAN]]
FailedBranches(join) == {b \in Branches : ~join.ok[b]}

\* Promise.all: fulfilled only if every branch is.
JoinFulfilledIgnoringPush(join) == FailedBranches(join) \subseteq {"pushData"}

JoinFulfilled(join) == FailedBranches(join) = {}

\* The errors a join can reject with: those of its failed branches (the one
\* that rejects first decides).
JoinErrors(join) == UNION {BranchErrors[b] : b \in FailedBranches(join)}

\* getRevisionData once getHgSha has returned: the join rejects, or the
\* content of the locale report is not JSON and JSON.parse throws, or the
\* revision data is returned (named here, not spelled out).
getRevisionData(join, error, parses) ==
    IF ~JoinFulfilled(join) THEN Failure(error)
    ELSE IF ~parses THEN Failure(SYNTAX_ERROR)
    ELSE Success("revisionData")

NoRevisionData ==
    [gitSha |-> Undefined, hgSha |-> Undefined, pushData |-> Undefined,
     ftlComparison |-> NotCompared, localesReport |-> Undefined,
     betaStartDate |-> NullDate, releaseStartDate |-> NullDate]

\* The object getRevisionData returns once the join is fulfilled.
RevisionDataOf(git, hg, mainInfo, webextInfo, dates) ==
    [gitSha |-> git, hgSha |-> hg, pushData |-> "pushData",
     ftlComparison |-> compareNewtabFtlFileInfos(mainInfo, webextInfo),
     localesReport |-> "localesReport",
     betaStartDate |-> dates.betaStartDate,
     releaseStartDate |-> dates.releaseStartDate]

----------------------------------------------------------------------------
(* CI data: getPushData and transformJobsData (background script)          *)

\* A push of pushData.results, and what results[0] is for an empty array:
\* undefined.
Push(id) == [defined |-> TRUE, id |-> id]
NoPush == [defined |-> FALSE, id |-> 0]

\* pushData.results[0]
FirstResult(pushes) == IF pushes = <<>> THEN NoPush ELSE pushes[1]

\* if (!pushData.results || pushData.results.length === 0)
NoPushFoundUnlessEmpty(pushData) == ~pushData.hasResults

NoPushFound(pushData) == ~pushData.hasResults \/ Len(pushData.results) = 0

\* The object propertyNames.forEach builds for one row: each name gets the
\* row's value at the name's index (a later index of the same name
\* overwrites), or undefined where the row is too short.
JobObjectFirstValue(propertyNames, jobArray) ==
    [name \in Range(propertyNames) |->
        IF jobArray = <<>> THEN Undefined ELSE jobArray[1]]

JobObject(propertyNames, jobArray) ==
    [name \in Range(propertyNames) |->
        LET index == CHOOSE i \in 1..Len(propertyNames) :
                        /\ propertyNames[i] = name
                        /\ \A j \in (i + 1)..Len(propertyNames) : propertyNames[j] /= name
        IN  IF index <= Len(jobArray) THEN jobArray[index] ELSE Undefined]

\* A payload field that is absent (undefined) is falsy; an array, even an
\* empty one, is truthy.
transformJobsData(jobsData) ==
    IF ~jobsData.hasResults \/ ~jobsData.hasNames
    THEN <<>>
    ELSE [r \in 1..Len(jobsData.results) |->
              JobObject(jobsData.job_property_names, jobsData.results[r])]

\* The two queries getPushData sends to Treeherder.
PushQuery(hg) == [query |-> "push", revision |-> hg, push_id |-> 0]
JobsQuery(pushId) == [query |-> "jobs", revision |-> Undefined, push_id |-> pushId]

NotCalled ==
    [returned |-> FALSE, threw |-> FALSE, error |-> "", push |-> NoPush,
     trainhopJobs |-> <<>>, requests |-> <<>>]
PushDataThrown(error, queries) ==
    [returned |-> TRUE, threw |-> TRUE, error |-> error, push |-> NoPush,
     trainhopJobs |-> <<>>, requests |-> queries]

\* What a fetch of Treeherder comes to: "neterr" (fetch rejects), "status"
\* (a response whose ok is false), "badjson" (an ok response whose body
\* response.json() cannot parse) or "json" (an ok response and its payload).
getPushData(hg, pushResp, jobsResp) ==
    LET pushData == pushResp.data
        push == FirstResult(pushData.results)
        one == <<PushQuery(hg)>>
        two == <<PushQuery(hg), JobsQuery(push.id)>>
    IN  IF pushResp.kind = "neterr"
        THEN PushDataThrown(NETWORK_ERROR, one)
        ELSE IF pushResp.kind = "status"
        THEN PushDataThrown("Failed to fetch push data from Treeherder", one)
        ELSE IF pushResp.kind = "badjson"
        THEN PushDataThrown(SYNTAX_ERROR, one)
        ELSE IF NoPushFound(pushData)
        THEN PushDataThrown("No push data found for Mercurial SHA", one)
        ELSE IF ~push.defined
        THEN PushDataThrown("can't access property \"id\", push is undefined", one)
        ELSE IF jobsResp.kind = "neterr"
        THEN PushDataThrown(NETWORK_ERROR, two)
        ELSE IF jobsResp.kind = "status"
        THEN PushDataThrown("Failed to fetch trainhop jobs from Treeherder", two)
        ELSE IF jobsResp.kind = "badjson"
        THEN PushDataThrown(SYNTAX_ERROR, two)
        ELSE [returned |-> TRUE, threw |-> FALSE, error |-> "", push |-> push,
              trainhopJobs |-> transformJobsData(jobsResp.data), requests |-> two]

\* Inputs: push payloads without results, with none, one and two; jobs
\* payloads with and without rows and field names, rows as long as the list
\* of names and shorter. Field names are distinct, as Treeherder's are.
MaxJobs == 2
JobValues == {"a", "b"}
NameLists == {<<>>, <<"id">>, <<"id", "state">>}
JobRows == [1..1 -> JobValues] \cup [1..2 -> JobValues]
JobRowLists == UNION {[1..n -> JobRows] : n \in 0..MaxJobs}
NoJobsData ==
    [hasResults |-> FALSE, results |-> <<>>, hasNames |-> FALSE, job_property_names |-> <<>>]
JobsPayloads ==
    {[hasResults |-> hr, results |-> (IF hr THEN rows ELSE <<>>),
      hasNames |-> hn, job_property_names |-> (IF hn THEN names ELSE <<>>)] :
        hr \in BOOLEAN, rows \in JobRowLists, hn \in BOOLEAN, names \in NameLists}
JobsResponses ==
    [kind : {"neterr", "status", "badjson"}, data : {NoJobsData}]
        \cup [kind : {"json"}, data : JobsPayloads]

NoPushData == [hasResults |-> FALSE, results |-> <<>>]
PushPayloads ==
    {NoPushData} \cup [hasResults : {TRUE},
                       results : {<<>>, <<Push(7)>>, <<Push(8), Push(7)>>}]
PushResponses ==
    [kind : {"neterr", "status", "badjson"}, data : {NoPushData}]
        \cup [kind : {"json"}, data : PushPayloads]

CiIdle ==
    /\ pushResponse = [kind |-> "status", data |-> NoPushData]
    /\ jobsResponse = [kind |-> "status", data |-> NoJobsData]
    /\ pushDataOut = NotCalled

CiInit ==
    /\ pushResponse \in PushResponses
    /\ jobsResponse \in JobsResponses
    /\ pushDataOut = NotCalled

\* One call of getPushData, from the push query to its return or throw.
GetPushData(hg) ==
    /\ ~pushDataOut.returned
    /\ pushDataOut' = getPushData(hg, pushResponse, jobsResponse)
    /\ UNCHANGED <<pushResponse, jobsResponse>>
    /\ CiFrame

----------------------------------------------------------------------------
(* handleMessage (background script): every message type and its handler   *)

MessageTypes == {"GET_LATEST_SHA", "VALIDATE_SHA", "GET_HG_SHA", "GET_GIT_SHA",
                 "GET_PUSH_DATA", "GET_REVISION_DATA"}

\* The messages: of every known type, of a type handleMessage does not know,
\* and without a type; id is the message's sha / gitSha / hgSha (a Mercurial
\* one for GET_GIT_SHA, a Git one for the others).
Messages ==
    [type : (MessageTypes \ {"GET_GIT_SHA"}) \cup {"PING", Undefined}, id : {"g1"}]
        \cup [type : {"GET_GIT_SHA"}, id : {"h1"}]
NoMessage == [type |-> "none", id |-> Undefined]

\* What the upstream services answer to the handler of one message: all is
\* well, or one of them fails (one branch of the join, for a join that
\* rejects); of a join that rejects, error is the message of the rejection,
\* and parses tells whether the locale report is JSON.
AllOk ==
    [latest |-> "g2", validate |-> "ok",
     push |-> [kind |-> "json", data |-> [hasResults |-> TRUE, results |-> <<Push(7)>>]],
     jobs |-> [kind |-> "json", data |-> NoJobsData],
     join |-> [ran |-> TRUE, ok |-> [b \in Branches |-> TRUE]], error |-> "",
     parses |-> TRUE]
Upstreams ==
    {[AllOk EXCEPT !.latest = o] : o \in LatestOutcomes}
        \cup {[AllOk EXCEPT !.validate = o] : o \in ValidateOutcomes}
        \cup {[AllOk EXCEPT !.push = [kind |-> k, data |-> NoPushData]] :
                  k \in {"neterr", "status", "badjson", "json"}}
        \cup {[AllOk EXCEPT !.jobs = [kind |-> k, data |-> NoJobsData]] :
                  k \in {"neterr", "status", "badjson"}}
        \cup UNION {{[AllOk EXCEPT !.join = j, !.error = e] : e \in JoinErrors(j)} :
                        j \in {o \in JoinOutcomes : Cardinality(FailedBranches(o)) = 1}}
        \cup {[AllOk EXCEPT !.parses = FALSE]}

\* The upstream answers the handler of a message of the given type meets.
UpstreamsOf(type) ==
    IF type = "GET_LATEST_SHA" THEN {up \in Upstreams : up = [AllOk EXCEPT !.latest = up.latest]}
    ELSE IF type = "VALIDATE_SHA"
    THEN {up \in Upstreams : up = [AllOk EXCEPT !.validate = up.validate]}
    ELSE IF type = "GET_PUSH_DATA"
    THEN {up \in Upstreams : up = [AllOk EXCEPT !.push = up.push, !.jobs = up.jobs]}
    ELSE IF type = "GET_REVISION_DATA"
    THEN {up \in Upstreams :
             up = [AllOk EXCEPT !.join = up.join, !.error = up.error, !.parses = up.parses]}
    ELSE {AllOk}

\* The messages whose handler begins with getHgSha / getGitSha, and the
\* direction of that conversion.
ResolverTypes == {"GET_HG_SHA", "GET_GIT_SHA", "GET_REVISION_DATA"}
DirectionOf(type) == IF type = "GET_GIT_SHA" THEN HG2GIT ELSE GIT2HG

\* The switch of handleMessage inside its try, once the handler has settled:
\* each handler's return value becomes { success: true, data }, whatever a
\* handler throws becomes { success: false, error: error.message }, and a
\* type without a case becomes the 'Unknown message type' failure. resolved
\* is what the handler's call of getHgSha / getGitSha came to, as that
\* response. The payloads of the two data messages are named, not spelled
\* out.
handleMessage(msg, up, resolved) ==
    IF msg.type = "GET_LATEST_SHA" THEN getLatestSha(up.latest)
    ELSE IF msg.type = "VALIDATE_SHA" THEN validateSha(msg.id, up.validate)
    ELSE IF msg.type \in {"GET_HG_SHA", "GET_GIT_SHA"} THEN resolved
    ELSE IF msg.type = "GET_PUSH_DATA"
    THEN LET r == getPushData(msg.id, up.push, up.jobs)
         IN  IF r.threw THEN Failure(r.error) ELSE Success("pushData")
    ELSE IF msg.type = "GET_REVISION_DATA"
    THEN IF ~resolved.success THEN resolved
         ELSE getRevisionData(up.join, up.error, up.parses)
    ELSE Failure("Unknown message type")

HmIdle ==
    /\ received = [p \in Callers |-> NoMessage]
    /\ response = [p \in Callers |-> NoReply]

\* A handler that has received a message and not yet answered it.
Pending(p) == received[p] /= NoMessage /\ response[p] = NoReply

\* browser.runtime.onMessage: the listener calls handleMessage and returns
\* its promise. handleMessage runs to its first await: the cache read of
\* getHgSha / getGitSha, or the first fetch of another handler; a message
\* of a type without a case is answered without any await. Other messages
\* arrive and are handled while this one waits. (Handlers are numbered as
\* they start: a message takes the first number that is free.)
OnMessage(p, msg) ==
    /\ ~Pending(p)
    /\ \A q \in 1..(p - 1) : Pending(q)
    /\ received' = [received EXCEPT ![p] = msg]
    /\ IF msg.type \in ResolverTypes
       THEN /\ ReadCache(p, DirectionOf(msg.type), msg.id)
            /\ response' = [response EXCEPT ![p] = NoReply]
       ELSE /\ started < MaxCalls
            /\ started' = started + 1
            /\ response' = [response EXCEPT ![p] =
                               IF msg.type \in MessageTypes THEN NoReply
                               ELSE handleMessage(msg, AllOk, NoReply)]
            /\ UNCHANGED <<storage, call, reply, fetchCount, returned>>
    /\ HmFrame

\* The handler's last await is over (for the three types that convert, the
\* call of getHgSha / getGitSha has returned or thrown before): handleMessage
\* returns and the response is sent.
HandlerReturns(p, up) ==
    /\ Pending(p)
    /\ received[p].type \in ResolverTypes => (call[p].pc = "idle" /\ reply[p] /= NoReply)
    /\ response' = [response EXCEPT ![p] = handleMessage(received[p], up, reply[p])]
    /\ UNCHANGED <<received, rsVars>>
    /\ HmFrame

----------------------------------------------------------------------------
(* TrainCheckApp (app.mjs)                                                 *)

SHA_TYPE_HG == "hg"
SHA_TYPE_GIT == "git"

\* The text of the input field: its content without the surrounding white
\* space, and whether white space surrounds it.
EmptyText == [pad |-> FALSE, body |-> ""]
TextOf(id) == [pad |-> FALSE, body |-> id]
Trim(text) == text.body
TruthyText(text) == text.pad \/ text.body /= ""

InputTexts == {EmptyText, [pad |-> TRUE, body |-> ""], [pad |-> TRUE, body |-> "h1"],
               TextOf("g1")}

READY == "Ready for implementation"
BETA_REQUIRED == "Error: Beta start date required for locales analysis"
RELEASE_REQUIRED == "Error: Release start date required for locales analysis"
ERROR == "Error: "

NoResults ==
    [set |-> FALSE, sha |-> EmptyText, hgSha |-> Undefined, hasRevisionData |-> FALSE,
     revisionData |-> NoRevisionData, status |-> "", message |-> ""]

\* this.results = { sha: gitSha, hgSha: hgSha, revisionData, status: ... }
ReadyResults(git, hg, data) ==
    [set |-> TRUE, sha |-> TextOf(git), hgSha |-> hg, hasRevisionData |-> TRUE,
     revisionData |-> data, status |-> READY, message |-> ""]

\* this.results = { sha: gitSha, hgSha: hgSha, status: "Error: ... required ..." }
DatesRequiredResults(git, hg, status) ==
    [set |-> TRUE, sha |-> TextOf(git), hgSha |-> hg, hasRevisionData |-> FALSE,
     revisionData |-> NoRevisionData, status |-> status, message |-> ""]

\* this.results = { sha: this.sha || 'unknown', status: `Error: ${error.message}` }
ErrorResults(text, message) ==
    [set |-> TRUE, sha |-> IF TruthyText(text) THEN text ELSE TextOf("unknown"),
     hgSha |-> Undefined, hasRevisionData |-> FALSE, revisionData |-> NoRevisionData,
     status |-> ERROR, message |-> message]

\* What #promptForDate's prompt() gives: null when cancelled, else a text
\* that matches /^\d{4}-\d{2}-\d{2}$/ or not and, if it does, names the
\* date given. (Texts the engines' Date parsers disagree on, a day past the
\* end of its month, are left out.)
Cancelled == [cancelled |-> TRUE, matches |-> FALSE, date |-> NullDate]
DateInputs ==
    {Cancelled,
     [cancelled |-> FALSE, matches |-> FALSE, date |-> NullDate],
     [cancelled |-> FALSE, matches |-> TRUE, date |-> <<2024, 13, 45>>],
     [cancelled |-> FALSE, matches |-> TRUE, date |-> <<2024, 1, 2>>]}

\* dateRegex.test(dateInput) && !isNaN(new Date(dateInput + 'T00:00:00Z').getTime())
ValidDateInputFormatOnly(input) == input.matches

ValidDateInput(input) == input.matches /\ IsISODate(input.date)

\* if (revisionData.betaStartDate === null) / (revisionData.releaseStartDate === null)
IsNullNever(date) == FALSE

IsNull(date) == date = NullDate

\* render() with results set reads this.results.revisionData.pushData, which
\* throws when the results carry no revisionData.
RenderThrows(res) == res.set /\ ~res.hasRevisionData

\* The update that follows a change of the reactive properties: render()
\* gives the button ?disabled=${this.loading}; when render() throws, the
\* page stays as it was last rendered.
Render == buttonDisabled' = IF RenderThrows(results') THEN buttonDisabled ELSE loading'

\* The two file infos and two schedule responses a check can meet.
AppMainStamps == {[date |-> <<2024, 6, 10>>, msOfDay |-> 0]}
AppWebextStamp == [date |-> <<2024, 6, 8>>, msOfDay |-> 0]
AppBetaResponses == {[kind |-> "status", date |-> NullDate],
                     [kind |-> "json", date |-> <<2024, 1, 1>>]}
AppReleaseResponses == {[kind |-> "neterr", date |-> NullDate],
                        [kind |-> "json", date |-> <<2023, 11, 29>>]}

\* What browser.runtime.sendMessage resolves to, while it is on its way: the
\* response of handleMessage and, with the response to GET_REVISION_DATA,
\* how the join settled and the data returned.
NoAnswer == [reply |-> NoReply, join |-> NoJoin, revisionData |-> NoRevisionData]
Answer(r) == [NoAnswer EXCEPT !.reply = r]

AppInit ==
    /\ sha = EmptyText
    /\ loading = FALSE
    /\ results = NoResults
    /\ buttonDisabled = FALSE
    /\ shaType = SHA_TYPE_HG
    /\ pc = "idle"
    /\ shaToCheck = Undefined
    /\ gitSha = Undefined
    /\ hgSha = Undefined
    /\ revisionData = NoRevisionData
    /\ requests = <<>>
    /\ lastJoin = NoJoin
    /\ declined = "none"
    /\ alerted = FALSE
    /\ failedAt = "none"
    /\ answer = NoAnswer

\* The input and change events; prompt() blocks them while it is open.
OnShaInput(text) ==
    /\ pc \notin {"PROMPT_BETA", "PROMPT_RELEASE"}
    /\ sha' = text
    /\ UNCHANGED <<shaType, loading, results, pc, shaToCheck, gitSha, hgSha, revisionData,
                   requests, lastJoin, declined, alerted, failedAt, storage, answer>>
    /\ Render
    /\ AppFrame

OnChangeSHAType(value) ==
    /\ pc \notin {"PROMPT_BETA", "PROMPT_RELEASE"}
    /\ shaType' = value
    /\ UNCHANGED <<sha, loading, results, pc, shaToCheck, gitSha, hgSha, revisionData,
                   requests, lastJoin, declined, alerted, failedAt, storage, answer>>
    /\ Render
    /\ AppFrame

\* catch (error) { this.results = ...; } this.loading = false;
Catch(message) ==
    /\ results' = ErrorResults(sha, message)
    /\ loading' = FALSE
    /\ failedAt' = pc
    /\ pc' = "idle"

\* The click on the button, which can be clicked unless it was rendered
\* disabled: loading is set and #resolveSha runs to its first await.
CheckTrainStatus ==
    /\ ~buttonDisabled
    /\ loading' = TRUE
    /\ lastJoin' = NoJoin /\ declined' = "none"
    /\ alerted' = FALSE /\ failedAt' = "none"
    /\ hgSha' = Undefined /\ revisionData' = NoRevisionData
    /\ IF Truthy(Trim(sha))
       THEN /\ shaToCheck' = Trim(sha)
            /\ IF shaType = SHA_TYPE_HG
               THEN /\ pc' = "GET_GIT_SHA" /\ gitSha' = Undefined
                    /\ requests' = <<<<"GET_GIT_SHA", Trim(sha)>>>>
               ELSE /\ pc' = "GET_HG_SHA" /\ gitSha' = Trim(sha)
                    /\ requests' = <<<<"GET_HG_SHA", Trim(sha)>>>>
       ELSE /\ shaToCheck' = Undefined /\ gitSha' = Undefined
            /\ pc' = "GET_LATEST_SHA"
            /\ requests' = <<<<"GET_LATEST_SHA", Undefined>>>>
    /\ UNCHANGED <<sha, shaType, results, storage, answer>>
    /\ Render
    /\ AppFrame

\* The background script and the message it is handling for the page: the
\* last one sent, as long as its response is not on its way.
PageVars == <<sha, shaType, loading, results, buttonDisabled, pc, shaToCheck, gitSha, hgSha,
              revisionData, requests, lastJoin, declined, alerted, failedAt>>
Handling(type) ==
    /\ pc \notin {"idle", "PROMPT_BETA", "PROMPT_RELEASE"}
    /\ answer = NoAnswer
    /\ requests[Len(requests)][1] = type
MessageId == requests[Len(requests)][2]

\* handleMessage, case GET_LATEST_SHA, from the message to its response.
HandleGetLatestSha(outcome) ==
    /\ Handling("GET_LATEST_SHA")
    /\ answer' = Answer(getLatestSha(outcome))
    /\ UNCHANGED <<storage, PageVars>>
    /\ AppFrame

\* handleMessage, case VALIDATE_SHA.
HandleValidateSha(outcome) ==
    /\ Handling("VALIDATE_SHA")
    /\ answer' = Answer(validateSha(MessageId, outcome))
    /\ UNCHANGED <<storage, PageVars>>
    /\ AppFrame

\* handleMessage, case GET_HG_SHA: getHgSha, with its cache.
HandleGetHgSha(outcome) ==
    LET r == ResolveWhole(storage, GIT2HG, MessageId, outcome) IN
    /\ Handling("GET_HG_SHA")
    /\ storage' = r.store
    /\ answer' = Answer(r.reply)
    /\ UNCHANGED PageVars
    /\ AppFrame

\* handleMessage, case GET_GIT_SHA: getGitSha, with its cache.
HandleGetGitSha(outcome) ==
    LET r == ResolveWhole(storage, HG2GIT, MessageId, outcome) IN
    /\ Handling("GET_GIT_SHA")
    /\ storage' = r.store
    /\ answer' = Answer(r.reply)
    /\ UNCHANGED PageVars
    /\ AppFrame

\* handleMessage, case GET_REVISION_DATA: getRevisionData converts the Git
\* SHA, joins its five branches, compares the two file infos, parses the
\* locale report and returns.
HandleGetRevisionData(outcome, join, mainStamp, beta, release, error, parses) ==
    LET r == ResolveWhole(storage, GIT2HG, MessageId, outcome)
        joined == getRevisionData(join, error, parses)
        mainInfo == [path |-> NEWTAB_FTL, lastModifiedDate |-> mainStamp]
        webextInfo == [path |-> WEBEXT_GLUE_FTL, lastModifiedDate |-> AppWebextStamp]
    IN
    /\ Handling("GET_REVISION_DATA")
    /\ storage' = r.store
    /\ answer' =
          IF ~r.reply.success THEN Answer(r.reply)
          ELSE [reply |-> joined, join |-> join,
                revisionData |->
                    IF joined.success
                    THEN RevisionDataOf(MessageId, r.reply.data, mainInfo, webextInfo,
                                        getBetaAndReleaseDates(beta, release))
                    ELSE NoRevisionData]
    /\ UNCHANGED PageVars
    /\ AppFrame

\* #resolveSha, Mercurial input: the GET_GIT_SHA response.
GitShaResponse ==
    LET r == answer.reply IN
    /\ pc = "GET_GIT_SHA" /\ answer /= NoAnswer
    /\ answer' = NoAnswer
    /\ IF r.success
       THEN /\ shaToCheck' = r.data /\ gitSha' = r.data
            /\ pc' = "GET_HG_SHA"
            /\ requests' = Append(requests, <<"GET_HG_SHA", r.data>>)
            /\ UNCHANGED <<results, loading, failedAt>>
       ELSE /\ Catch(r.error)
            /\ UNCHANGED <<shaToCheck, gitSha, requests>>
    /\ UNCHANGED <<sha, shaType, hgSha, revisionData, lastJoin, declined, alerted, storage>>
    /\ Render
    /\ AppFrame

\* #resolveSha, non-blank input: the GET_HG_SHA response.
HgShaResponse ==
    LET r == answer.reply IN
    /\ pc = "GET_HG_SHA" /\ answer /= NoAnswer
    /\ answer' = NoAnswer
    /\ IF r.success
       THEN /\ hgSha' = r.data
            /\ pc' = "VALIDATE_SHA"
            /\ requests' = Append(requests, <<"VALIDATE_SHA", gitSha>>)
            /\ UNCHANGED <<results, loading, failedAt>>
       ELSE /\ Catch(r.error)
            /\ UNCHANGED <<hgSha, requests>>
    /\ UNCHANGED <<sha, shaType, shaToCheck, gitSha, revisionData, lastJoin, declined,
                   alerted, storage>>
    /\ Render
    /\ AppFrame

\* After #resolveSha has returned: an empty input is filled with the Git
\* SHA, and GET_REVISION_DATA is sent.
AfterResolve(git) ==
    /\ sha' = IF Truthy(Trim(sha)) THEN sha ELSE TextOf(git)
    /\ pc' = "GET_REVISION_DATA"
    /\ requests' = Append(requests, <<"GET_REVISION_DATA", git>>)
    /\ UNCHANGED <<results, loading, failedAt>>

\* #resolveSha, non-blank input: the VALIDATE_SHA response.
ValidateShaResponse ==
    LET r == answer.reply IN
    /\ pc = "VALIDATE_SHA" /\ answer /= NoAnswer
    /\ answer' = NoAnswer
    /\ IF r.success
       THEN AfterResolve(gitSha)
       ELSE Catch(r.error) /\ UNCHANGED <<sha, requests>>
    /\ UNCHANGED <<shaType, shaToCheck, gitSha, hgSha, revisionData, lastJoin, declined,
                   alerted, storage>>
    /\ Render
    /\ AppFrame

\* #getLatestSha: the GET_LATEST_SHA response.
LatestShaResponse ==
    LET r == answer.reply IN
    /\ pc = "GET_LATEST_SHA" /\ answer /= NoAnswer
    /\ answer' = NoAnswer
    /\ IF r.success
       THEN /\ shaType' = SHA_TYPE_GIT
            /\ gitSha' = r.data
            /\ pc' = "GET_HG_SHA_LATEST"
            /\ requests' = Append(requests, <<"GET_HG_SHA", r.data>>)
            /\ UNCHANGED <<results, loading, failedAt>>
       ELSE /\ Catch(r.error)
            /\ UNCHANGED <<shaType, gitSha, requests>>
    /\ UNCHANGED <<sha, shaToCheck, hgSha, revisionData, lastJoin, declined, alerted,
                   storage>>
    /\ Render
    /\ AppFrame

\* #getLatestSha: the GET_HG_SHA response.
LatestHgShaResponse ==
    LET r == answer.reply IN
    /\ pc = "GET_HG_SHA_LATEST" /\ answer /= NoAnswer
    /\ answer' = NoAnswer
    /\ IF r.success
       THEN /\ hgSha' = r.data
            /\ AfterResolve(gitSha)
       ELSE /\ Catch(r.error)
            /\ UNCHANGED <<hgSha, sha, requests>>
    /\ UNCHANGED <<shaType, shaToCheck, gitSha, revisionData, lastJoin, declined, alerted,
                   storage>>
    /\ Render
    /\ AppFrame

\* this.results = { ..., revisionData, status: "Ready for implementation" }
Finish(data) ==
    /\ results' = ReadyResults(gitSha, hgSha, data)
    /\ loading' = FALSE
    /\ pc' = "idle"

\* With revisionData at hand: the first null date is prompted for; with
\* both dates present the results are set.
AfterDates(data) ==
    /\ revisionData' = data
    /\ IF IsNull(data.betaStartDate)
       THEN pc' = "PROMPT_BETA" /\ UNCHANGED <<results, loading>>
       ELSE IF IsNull(data.releaseStartDate)
       THEN pc' = "PROMPT_RELEASE" /\ UNCHANGED <<results, loading>>
       ELSE Finish(data)

\* #getRevisionData: the GET_REVISION_DATA response.
RevisionDataResponse ==
    /\ pc = "GET_REVISION_DATA" /\ answer /= NoAnswer
    /\ answer' = NoAnswer
    /\ lastJoin' = answer.join
    /\ IF answer.reply.success
       THEN /\ AfterDates(answer.revisionData)
            /\ UNCHANGED failedAt
       ELSE /\ Catch(answer.reply.error)
            /\ UNCHANGED revisionData
    /\ UNCHANGED <<sha, shaType, shaToCheck, gitSha, hgSha, requests, declined, alerted,
                   storage>>
    /\ Render
    /\ AppFrame

\* What #promptForDate returns once its loop ends: null, or the text entered.
PromptForDate(input) == IF input.cancelled THEN NullDate ELSE input.date

\* One prompt() of #promptForDate('Beta start date', ...): an invalid text
\* is answered with an alert and the prompt repeats; otherwise the function
\* returns and #checkTrainStatus goes on.
PromptBeta(input) ==
    /\ pc = "PROMPT_BETA"
    /\ IF ~input.cancelled /\ ~ValidDateInput(input)
       THEN /\ alerted' = TRUE
            /\ UNCHANGED <<results, loading, pc, revisionData, declined>>
       ELSE /\ declined' = IF input.cancelled THEN "beta" ELSE declined
            /\ UNCHANGED alerted
            /\ IF IsNull(PromptForDate(input))
               THEN /\ results' = DatesRequiredResults(gitSha, hgSha, BETA_REQUIRED)
                    /\ pc' = "idle"
                    /\ UNCHANGED <<revisionData, loading>>
               ELSE LET data == [revisionData EXCEPT
                                    !.betaStartDate = PromptForDate(input)]
                    IN  /\ revisionData' = data
                        /\ IF IsNull(data.releaseStartDate)
                           THEN pc' = "PROMPT_RELEASE" /\ UNCHANGED <<results, loading>>
                           ELSE Finish(data)
    /\ UNCHANGED <<sha, shaType, shaToCheck, gitSha, hgSha, requests, lastJoin, failedAt,
                   storage, answer>>
    /\ Render
    /\ AppFrame

\* One prompt() of #promptForDate('Release start date ...', ...), likewise.
PromptRelease(input) ==
    /\ pc = "PROMPT_RELEASE"
    /\ IF ~input.cancelled /\ ~ValidDateInput(input)
       THEN /\ alerted' = TRUE
            /\ UNCHANGED <<results, loading, pc, revisionData, declined>>
       ELSE /\ declined' = IF input.cancelled THEN "release" ELSE declined
            /\ UNCHANGED alerted
            /\ IF IsNull(PromptForDate(input))
               THEN /\ results' = DatesRequiredResults(gitSha, hgSha, RELEASE_REQUIRED)
                    /\ pc' = "idle"
                    /\ UNCHANGED <<revisionData, loading>>
               ELSE LET data == [revisionData EXCEPT
                                    !.releaseStartDate = PromptForDate(input)]
                    IN  /\ revisionData' = data
                        /\ Finish(data)
    /\ UNCHANGED <<sha, shaType, shaToCheck, gitSha, hgSha, requests, lastJoin, failedAt,
                   storage, answer>>
    /\ Render
    /\ AppFrame

\* TrainCheckApp.render with results set: the template reads
\* this.results.revisionData.pushData, which throws when the results carry
\* no revisionData; otherwise <locales-results> gets the two dates, and its
\* render runs #localesReport when it has a report and a comparison.
LocalesReportRuns ==
    /\ results.set
    /\ results.hasRevisionData
    /\ Truthy(results.revisionData.localesReport)
    /\ results.revisionData.ftlComparison /= NotCompared

----------------------------------------------------------------------------
(* Specifications                                                          *)

InitLocales == LrInit /\ FtlIdle /\ RsIdle /\ SgIdle /\ AppInit /\ CiIdle /\ HmIdle
NextLocales == LocalesReportRender
SpecLocales == InitLocales /\ [][NextLocales]_vars

InitCompare == FtlInit /\ LrIdle /\ RsIdle /\ SgIdle /\ AppInit /\ CiIdle /\ HmIdle
NextCompare == CompareFtl
SpecCompare == InitCompare /\ [][NextCompare]_vars

InitSchedule == SgInit /\ LrIdle /\ FtlIdle /\ RsIdle /\ AppInit /\ CiIdle /\ HmIdle
NextSchedule == GetMergeDates
SpecSchedule == InitSchedule /\ [][NextSchedule]_vars

\* getPushData on every pair of Treeherder responses.
InitPush == CiInit /\ LrIdle /\ FtlIdle /\ RsIdle /\ SgIdle /\ HmIdle /\ AppInit
NextPush == \E hg \in HgShas : GetPushData(hg)
SpecPush == InitPush /\ [][NextPush]_vars

\* The background script answering the messages of any number of pages,
\* the handlers interleaved at their awaits.
InitMessages == HmIdle /\ RsIdle /\ LrIdle /\ FtlIdle /\ SgIdle /\ CiIdle /\ AppInit
NextMessages ==
    \/ \E p \in Callers, msg \in Messages : OnMessage(p, msg)
    \/ \E p \in Callers : CacheReadDone(p)
    \/ \E p \in Callers, outcome \in ConversionOutcomes, applied \in BOOLEAN :
          ConversionResponse(p, outcome, applied)
    \/ \E p \in Callers : StorageSetApplied(p)
    \/ \E p \in Callers : StorageSetDone(p)
    \/ \E p \in Callers : \E up \in UpstreamsOf(received[p].type) : HandlerReturns(p, up)
SpecMessages == InitMessages /\ [][NextMessages]_vars

\* Resolver calls arriving from any number of pages, interleaved at their
\* awaits (of the cache read, of the conversion request, of the cache write);
\* the store takes a read when it is issued and a write at some point
\* between its issue and its completion.
InitResolver == RsIdle /\ LrIdle /\ FtlIdle /\ SgIdle /\ AppInit /\ CiIdle /\ HmIdle
NextResolver ==
    \/ \E p \in Callers, d \in Directions, id \in Shas : ResolverCall(p, d, id)
    \/ \E p \in Callers : CacheReadDone(p)
    \/ \E p \in Callers, outcome \in ConversionOutcomes, applied \in BOOLEAN :
          ConversionResponse(p, outcome, applied)
    \/ \E p \in Callers : StorageSetApplied(p)
    \/ \E p \in Callers : StorageSetDone(p)
SpecResolver == InitResolver /\ [][NextResolver]_vars

\* Resolver calls made one after the other: each call ends before the next
\* begins.
NextResolverSeq ==
    \/ \E d \in Directions, id \in Shas : ResolverCall(1, d, id)
    \/ CacheReadDone(1)
    \/ \E outcome \in ConversionOutcomes, applied \in BOOLEAN :
          ConversionResponse(1, outcome, applied)
    \/ StorageSetApplied(1)
    \/ StorageSetDone(1)
SpecResolverSeq == InitResolver /\ [][NextResolverSeq]_vars

\* One page of the extension and the background script that serves it: the
\* page's events, the background script handling the page's message, and
\* the page taking the response.
Init == AppInit /\ RsIdle /\ LrIdle /\ FtlIdle /\ SgIdle /\ CiIdle /\ HmIdle
Next ==
    \/ \E text \in InputTexts : OnShaInput(text)
    \/ \E value \in {SHA_TYPE_HG, SHA_TYPE_GIT} : OnChangeSHAType(value)
    \/ CheckTrainStatus
    \/ \E outcome \in LatestOutcomes : HandleGetLatestSha(outcome)
    \/ \E outcome \in ValidateOutcomes : HandleValidateSha(outcome)
    \/ \E outcome \in ConversionOutcomes : HandleGetHgSha(outcome)
    \/ \E outcome \in ConversionOutcomes : HandleGetGitSha(outcome)
    \/ \E outcome \in ConversionOutcomes, join \in JoinOutcomes :
          \E mainStamp \in AppMainStamps,
             beta \in (IF JoinFulfilled(join) THEN AppBetaResponses ELSE {NotFetched}),
             release \in (IF JoinFulfilled(join) THEN AppReleaseResponses ELSE {NotFetched}),
             error \in (IF JoinFulfilled(join) THEN {""} ELSE JoinErrors(join)),
             parses \in (IF JoinFulfilled(join) THEN BOOLEAN ELSE {TRUE}) :
             HandleGetRevisionData(outcome, join, mainStamp, beta, release, error, parses)
    \/ GitShaResponse
    \/ HgShaResponse
    \/ ValidateShaResponse
    \/ LatestShaResponse
    \/ LatestHgShaResponse
    \/ RevisionDataResponse
    \/ \E input \in DateInputs : PromptBeta(input)
    \/ \E input \in DateInputs : PromptRelease(input)
Spec == Init /\ [][Next]_vars

----------------------------------------------------------------------------
(* Claims about the locale classifier                                      *)

\* The locales for which a pair of lists was produced.
ShownLocales == {l \in Locales : localesOut.rendered /\ localesOut.details[l].shown}

IntroDay(k) == EpochDays(localesReport.message_dates[k])
BetaAgeDays == EpochDays(now) - EpochDays(betaStartDate)
ThreeWeeksDays == 21

\* C1 as stated: a key is missing exactly when it was introduced strictly
\* before releaseStart, or on or after betaStart with beta older than three
\* weeks; otherwise it is pending.
C1_AsStated ==
    \A l \in ShownLocales : \A k \in Range(localesReport.locales[l].keys) :
        LET m == \/ IntroDay(k) < EpochDays(releaseStartDate)
                 \/ /\ IntroDay(k) >= EpochDays(betaStartDate)
                    /\ BetaAgeDays > ThreeWeeksDays
        IN  /\ (k \in Range(localesOut.details[l].missing)) <=> m
            /\ (k \in Range(localesOut.details[l].pending)) <=> ~m

\* C1 amended: a key is missing exactly when it was introduced strictly
\* before releaseStart, or on any day other than betaStart (before or after
\* it) with beta older than three weeks; otherwise it is pending.
C1_MissingRule ==
    \A l \in ShownLocales : \A k \in Range(localesReport.locales[l].keys) :
        LET m == \/ IntroDay(k) < EpochDays(releaseStartDate)
                 \/ /\ IntroDay(k) /= EpochDays(betaStartDate)
                    /\ BetaAgeDays > ThreeWeeksDays
        IN  /\ (k \in Range(localesOut.details[l].missing)) <=> m
            /\ (k \in Range(localesOut.details[l].pending)) <=> ~m

\* A key introduced strictly between releaseStart and betaStart is missing,
\* and a key introduced on betaStart is pending, with beta older than three
\* weeks.
C1_Witness ==
    \E l \in ShownLocales :
        /\ BetaAgeDays > ThreeWeeksDays
        /\ \E k \in Range(localesOut.details[l].missing) :
              /\ IntroDay(k) > EpochDays(releaseStartDate)
              /\ IntroDay(k) < EpochDays(betaStartDate)
        /\ \E k \in Range(localesOut.details[l].pending) :
              IntroDay(k) = EpochDays(betaStartDate)

\* C10: for every locale with a list of missing keys, the missing and the
\* pending list are disjoint and together hold exactly the keys of the
\* locale's list, each as often as the list holds it.
C10_Partition ==
    \A l \in ShownLocales :
        LET d == localesOut.details[l]
            orig == localesReport.locales[l].keys
        IN  /\ Range(d.missing) \cap Range(d.pending) = {}
            /\ Range(d.missing) \cup Range(d.pending) = Range(orig)
            /\ Len(d.missing) + Len(d.pending) = Len(orig)

C10_Witness ==
    \E l \in ShownLocales :
        /\ localesOut.details[l].missing /= <<>>
        /\ localesOut.details[l].pending /= <<>>

\* The keys of a shown locale's list that were introduced on the given day.
KeysIntroducedOn(l, date) ==
    {k \in Range(localesReport.locales[l].keys) : localesReport.message_dates[k] = date}

\* The case of the threshold example: betaStart 2024-01-01, releaseStart not
\* after 2024-01-15.
ThresholdExample ==
    /\ localesOut.rendered
    /\ betaStartDate = <<2024, 1, 1>>
    /\ EpochDays(releaseStartDate) <= EpochDays(<<2024, 1, 15>>)

\* C11 as stated: with betaStart 2024-01-01, a key introduced 2024-01-15 is
\* missing when now is 2024-01-22 and pending when now is 2024-01-10.
C11_AsStated ==
    ThresholdExample =>
        \A l \in ShownLocales : \A k \in KeysIntroducedOn(l, <<2024, 1, 15>>) :
            /\ now = <<2024, 1, 22>> => k \in Range(localesOut.details[l].missing)
            /\ now = <<2024, 1, 10>> => k \in Range(localesOut.details[l].pending)

\* C11 amended: with betaStart 2024-01-01, a key introduced 2024-01-15 is
\* pending when now is 2024-01-10 and still pending when now is 2024-01-22,
\* which is exactly three weeks (21 days) after betaStart; it is missing when
\* now is 2024-01-23, the first day more than three weeks after betaStart.
C11_ThresholdEdge ==
    ThresholdExample =>
        \A l \in ShownLocales : \A k \in KeysIntroducedOn(l, <<2024, 1, 15>>) :
            /\ now = <<2024, 1, 10>> =>
                  /\ k \in Range(localesOut.details[l].pending)
                  /\ k \notin Range(localesOut.details[l].missing)
            /\ now = <<2024, 1, 22>> =>
                  /\ k \in Range(localesOut.details[l].pending)
                  /\ k \notin Range(localesOut.details[l].missing)
            /\ now = <<2024, 1, 23>> =>
                  /\ k \in Range(localesOut.details[l].missing)
                  /\ k \notin Range(localesOut.details[l].pending)

\* The example on 2024-01-22: the key introduced 2024-01-15 is pending.
C11_Witness ==
    /\ ThresholdExample
    /\ now = <<2024, 1, 22>>
    /\ BetaAgeDays = ThreeWeeksDays
    /\ \E l \in ShownLocales : \E k \in KeysIntroducedOn(l, <<2024, 1, 15>>) :
          k \in Range(localesOut.details[l].pending)

\* C12: a key introduced on or after releaseStart and before betaStart is
\* pending as long as the time from betaStart to now is at most three weeks,
\* and missing once it is more, however long after releaseStart the key was
\* introduced.
C12_BetweenReleaseAndBeta ==
    \A l \in ShownLocales : \A k \in Range(localesReport.locales[l].keys) :
        (IntroDay(k) >= EpochDays(releaseStartDate) /\ IntroDay(k) < EpochDays(betaStartDate))
        => /\ (k \in Range(localesOut.details[l].pending)) <=> (BetaAgeDays <= ThreeWeeksDays)
           /\ (k \in Range(localesOut.details[l].missing)) <=> (BetaAgeDays > ThreeWeeksDays)

\* One locale lists a key introduced on releaseStart and a key introduced
\* later but before betaStart; beta is older than three weeks and both keys
\* are missing.
C12_Witness ==
    \E l \in ShownLocales :
        /\ BetaAgeDays > ThreeWeeksDays
        /\ \E k1 \in Range(localesOut.details[l].missing) :
              IntroDay(k1) = EpochDays(releaseStartDate)
        /\ \E k2 \in Range(localesOut.details[l].missing) :
              /\ IntroDay(k2) > EpochDays(releaseStartDate)
              /\ IntroDay(k2) < EpochDays(betaStartDate)

\* C13: an entry is produced exactly for the locales whose list of missing
\* keys for the tracked file is non-empty; a locale without a list for the
\* file and a locale whose list is empty have no entry.
C13_OnlyNonEmptyLocales ==
    localesOut.rendered =>
        \A l \in Locales :
            localesOut.details[l].shown <=>
                (localesReport.locales[l].defined /\ localesReport.locales[l].keys /= <<>>)

----------------------------------------------------------------------------
(* Claims about compareNewtabFtlFileInfos                                  *)

Statuses == {"in-sync", "main-newer", "webext-newer"}
Compared == ftlComparison /= NotCompared

\* C2: the status is one of the three, main-newer implies a positive day
\* delta, webext-newer a negative one, and a day delta of zero implies
\* in-sync (also for timestamps that differ by less than half a day).
C2_DeltaSignMatchesStatus ==
    Compared =>
        /\ ftlComparison.status \in Statuses
        /\ (ftlComparison.status = "main-newer" => ftlComparison.daysDiff > 0)
        /\ (ftlComparison.status = "webext-newer" => ftlComparison.daysDiff < 0)
        /\ (ftlComparison.daysDiff = 0 => ftlComparison.status = "in-sync")

----------------------------------------------------------------------------
(* Claims about the identifier resolver                                    *)

\* C3: of the successful calls made one after the other with the same
\* direction and id, the first performs one conversion request, every later
\* one performs none (it is served from the cache), and all return the same
\* value; so two successive successful calls perform exactly one request.
C3_Idempotent ==
    \A k \in CacheKeys : \A i \in 1..Len(returned[k]) :
        /\ returned[k][i].fetched = (IF i = 1 THEN 1 ELSE 0)
        /\ returned[k][i].data = returned[k][1].data
        /\ returned[k][i].data = LandoLookup(k[1], k[2])

\* Two successful calls for the same pair have returned.
C3_Witness == \E k \in CacheKeys : Len(returned[k]) >= 2

\* C4 as stated: under any interleaving the conversion service is called at
\* most once for each (direction, id) pair.
C4_AsStated == \A k \in CacheKeys : fetchCount[k] <= 1

\* C4 amended: under any interleaving a conversion request is issued only
\* by a call whose read of the cache found no entry for its pair, one
\* request for that pair and at the delivery of that read; a call whose read
\* found the entry returns it and issues no request.
C4_FetchOnlyAfterMiss ==
    [][/\ \A k \in CacheKeys :
             fetchCount'[k] /= fetchCount[k]
                 => /\ fetchCount'[k] = fetchCount[k] + 1
                    /\ \E p \in Callers :
                          /\ call[p].pc = "reading" /\ call'[p].pc = "fetching"
                          /\ CacheKey(call[p].direction, call[p].id) = k
                          /\ ~Truthy(call[p].result[k])
       /\ \A p \in Callers :
             (call[p].pc = "reading" /\ call'[p] /= call[p]
                  /\ Truthy(call[p].result[CacheKey(call[p].direction, call[p].id)]))
                 => /\ fetchCount' = fetchCount
                    /\ call'[p].pc = "idle"
                    /\ reply'[p] =
                          Success(call[p].result[CacheKey(call[p].direction, call[p].id)])
      ]_vars

\* Two overlapping calls have both requested the conversion of one pair, and
\* the pair has been cached and served from the cache since.
C4_Witness ==
    \E k \in CacheKeys :
        /\ fetchCount[k] = 2
        /\ Truthy(storage[k])
        /\ \E i \in 1..Len(returned[k]) : returned[k][i].fetched = 0

\* The number of times the entry of a pair was written to the cache.
Writes(k) == Cardinality({i \in 1..Len(returned[k]) : returned[k][i].fetched = 1})

\* C16 as stated: under any interleaving every cache key is written at most
\* once.
C16_AsStated == \A k \in CacheKeys : Writes(k) <= 1

\* C16 amended: under any interleaving, once a cache key holds a value, no
\* step changes, expires or removes that value (overlapping calls may write
\* the key again, with the same value).
C16_EntryNeverChanges ==
    [][\A k \in CacheKeys : Truthy(storage[k]) => storage'[k] = storage[k]]_vars

\* Two overlapping calls have both written the entry of one pair.
C16_Witness == \E k \in CacheKeys : Writes(k) = 2 /\ Truthy(storage[k])

\* The calls whose cache write is applied by a step: the write was issued
\* before and is applied now, or it is issued by this step (the conversion
\* response has arrived) and applied at once.
Writing(p) ==
    /\ call'[p].pc = "stored"
    /\ call[p].pc \in {"storing", "fetching"}

\* C21: a step of the resolver changes the store only by applying the write
\* of a call that missed the cache and whose conversion succeeded: it
\* writes the one entry '<direction>:<id>' of the call with the value the
\* conversion gave and leaves every other entry alone; the call returns
\* that value only after the write was applied, the entry then holding it.
\* A cache hit and a failed conversion leave the store unchanged.
C21_StoreWrittenOnlyOnMiss ==
    [][/\ \A p \in Callers :
             Writing(p)
                 => /\ storage'[<<call[p].direction, call[p].id>>] = call'[p].value
                    /\ call'[p].value = LandoLookup(call[p].direction, call[p].id)
       /\ \A p \in Callers :
             (call[p].pc \in {"storing", "stored"} /\ call'[p].pc = "idle")
                 => /\ call[p].pc = "stored"
                    /\ storage[<<call[p].direction, call[p].id>>] = call[p].value
                    /\ storage' = storage
                    /\ reply'[p] = Success(call[p].value)
       /\ \A k \in CacheKeys :
             storage'[k] /= storage[k]
                 => /\ \E p \in Callers :
                          /\ Writing(p)
                          /\ k = <<call[p].direction, call[p].id>>
                    /\ \A other \in CacheKeys \ {k} : storage'[other] = storage[other]
       /\ (\E p \in Callers : reply'[p] /= reply[p] /\ ~reply'[p].success)
             => storage' = storage
       /\ (\E k \in CacheKeys : Len(returned'[k]) > Len(returned[k])
                                  /\ returned'[k][Len(returned'[k])].fetched = 0)
             => storage' = storage
      ]_vars

\* One entry has been written, a later call was served from it, and a
\* conversion of another id has failed: the store holds that one entry.
C21_Witness ==
    \E k \in CacheKeys :
        /\ Truthy(storage[k])
        /\ \A other \in CacheKeys \ {k} : ~Truthy(storage[other])
        /\ \E i \in 1..Len(returned[k]) : returned[k][i].fetched = 0
        /\ \E p \in Callers : ~reply[p].success /\ reply[p] /= NoReply

----------------------------------------------------------------------------
(* Claims about the schedule gateway                                       *)

MergeDatesReturned == mergeDates /= MergeDatesPending
FetchSucceeded(r) == r.kind = "json" /\ IsISODate(r.date)

\* C5: whatever the failure of one schedule fetch (a non-success status, a
\* thrown network error, an unparsable payload), only its own field is null:
\* a field is null exactly when its own fetch failed, and carries its date
\* whenever its own fetch succeeded.
C5_FetchesIndependent ==
    MergeDatesReturned =>
        /\ FetchSucceeded(betaResponse) => mergeDates.betaStartDate = betaResponse.date
        /\ FetchSucceeded(releaseResponse) => mergeDates.releaseStartDate /= NullDate
        /\ ~FetchSucceeded(betaResponse) => mergeDates.betaStartDate = NullDate
        /\ ~FetchSucceeded(releaseResponse) => mergeDates.releaseStartDate = NullDate

\* 2024-01-01 was a Monday.
IsMonday(date) == (EpochDays(date) - EpochDays(<<2024, 1, 1>>)) % 7 = 0

\* C14: the derived release start is the most recent Monday on or before
\* beta_1: a Monday, not after beta_1, at most 6 days before it, and beta_1
\* itself when that is a Monday; 2024-03-18 and 2024-03-20 both give
\* 2024-03-18.
C14_MondayOnOrBefore ==
    (MergeDatesReturned /\ mergeDates.releaseStartDate /= NullDate) =>
        LET beta1 == releaseResponse.date
            start == mergeDates.releaseStartDate
        IN  /\ IsISODate(start)
            /\ IsMonday(start)
            /\ EpochDays(start) <= EpochDays(beta1)
            /\ EpochDays(beta1) - EpochDays(start) <= 6
            /\ IsMonday(beta1) => start = beta1
            /\ beta1 = <<2024, 3, 18>> => start = <<2024, 3, 18>>
            /\ beta1 = <<2024, 3, 20>> => start = <<2024, 3, 18>>

\* beta_1 is Wednesday 2024-03-20 and the release start Monday 2024-03-18.
C14_Witness ==
    /\ MergeDatesReturned
    /\ releaseResponse.date = <<2024, 3, 20>>
    /\ mergeDates.releaseStartDate = <<2024, 3, 18>>

DateOrNull(date) == date = NullDate \/ IsISODate(date)
FetchThrew(r) == Rejected(r) \/ (ResponseOk(r) /\ PayloadThrows(r))

\* C15: whatever the two schedule fetches come to, getBetaAndReleaseDates
\* returns (it does not throw), each field of what it returns is a date or
\* null, and when something was thrown on the way both fields are null.
C15_ScheduleFailureAbsorbed ==
    /\ ~MergeDatesReturned => ENABLED GetMergeDates
    /\ MergeDatesReturned =>
          /\ DateOrNull(mergeDates.betaStartDate)
          /\ DateOrNull(mergeDates.releaseStartDate)
          /\ (FetchThrew(betaResponse) \/ FetchThrew(releaseResponse))
                => mergeDates = NoMergeDates

\* The beta fetch was rejected, the release payload names no real date, and
\* the call has returned two nulls.
C15_Witness ==
    /\ MergeDatesReturned
    /\ Rejected(betaResponse)
    /\ releaseResponse.kind = "json" /\ ~IsISODate(releaseResponse.date)
    /\ mergeDates = NoMergeDates

----------------------------------------------------------------------------
(* Claims about TrainCheckApp's check                                      *)

\* C6: when the push/job retrieval, one of the two file-info retrievals or
\* the locale-report retrieval has failed, the check ends in failure: the
\* results are the error results and carry no revisionData.
C6_NoPartialSuccess ==
    (lastJoin.ran /\ FailedBranches(lastJoin) /= {}) =>
        /\ results.set
        /\ ~results.hasRevisionData
        /\ results.status = ERROR
        /\ failedAt = "GET_REVISION_DATA"
        /\ pc = "idle"

\* The locale report alone failed, and the check has ended in failure.
C6_Witness ==
    /\ lastJoin.ran
    /\ FailedBranches(lastJoin) = {"localesReport"}
    /\ results.status = ERROR

\* C7: results that carry revisionData (the only ones the locale classifier
\* runs on) have both merge dates; and once the operator has declined a date
\* prompt the results are the 'dates required' ones for that date, without
\* revisionData, so that the classifier does not run.
C7_DatesBeforeClassification ==
    /\ results.hasRevisionData =>
          /\ results.revisionData.betaStartDate /= NullDate
          /\ results.revisionData.releaseStartDate /= NullDate
    /\ LocalesReportRuns =>
          /\ IsISODate(results.revisionData.betaStartDate)
          /\ IsISODate(results.revisionData.releaseStartDate)
    /\ declined /= "none" =>
          /\ ~LocalesReportRuns
          /\ ~results.hasRevisionData
          /\ results.status = (IF declined = "beta" THEN BETA_REQUIRED ELSE RELEASE_REQUIRED)
          /\ pc = "idle"

\* The schedule gave no beta date and the operator declined the prompt.
C7_Witness ==
    /\ declined = "beta"
    /\ revisionData.betaStartDate = NullDate
    /\ results.status = BETA_REQUIRED

\* C8: in a check of a non-blank Mercurial input the GET_HG_SHA message (the
\* derivation of the Mercurial id from the Git id) is sent only after the
\* VALIDATE_SHA message (the existence check), which itself follows the
\* GET_GIT_SHA message (the conversion).
C8_ValidateBeforeDerive ==
    (requests /= <<>> /\ requests[1][1] = "GET_GIT_SHA") =>
        \A i \in 1..Len(requests) :
            requests[i][1] = "GET_HG_SHA" =>
                \E j \in 1..(i - 1) : requests[j][1] = "VALIDATE_SHA"

\* C9: when the check has failed during data gathering, after both
\* identifiers were resolved, the error results carry the resolved Git id
\* and the derived Mercurial id together with the failure message.
C9_ErrorCarriesIdentifiers ==
    failedAt = "GET_REVISION_DATA" =>
        /\ results.status = ERROR
        /\ results.message /= ""
        /\ results.sha = TextOf(gitSha)
        /\ results.hgSha = hgSha

\* #resolveSha has returned { gitSha, hgSha } and #checkTrainStatus holds
\* the pair: while the revision data is awaited and while a date is
\* prompted for.
Resolved == pc \in {"GET_REVISION_DATA", "PROMPT_BETA", "PROMPT_RELEASE"}

\* The Git id and the Mercurial id name one commit: the conversion service
\* maps each to the other.
SameCommit(git, hg) ==
    /\ git \in GitShas /\ hg \in HgShas
    /\ HgOfGit[git] = hg
    /\ GitOfHg[hg] = git

\* C17: with a conversion service that is a consistent bijection, the pair
\* #resolveSha returns names one commit, whatever the cache held when the
\* check began; for a Mercurial input the pair's Mercurial id, which is the
\* Git id found for the input resolved back, is the id that was typed; the
\* results shown with a Mercurial id carry such a pair; and the cache is
\* closed under the round trip: the entry of an entry's value in the other
\* direction, if there is one, holds that entry's id.
C17_RoundTrip ==
    /\ Resolved => SameCommit(gitSha, hgSha)
    /\ (Resolved /\ requests[1][1] = "GET_GIT_SHA") =>
          /\ requests[2] = <<"GET_HG_SHA", gitSha>>
          /\ hgSha = requests[1][2]
    /\ (results.set /\ Truthy(results.hgSha)) => SameCommit(results.sha.body, results.hgSha)
    /\ \A direction \in Directions, id \in Shas :
          Truthy(storage[<<direction, id>>]) =>
              LET back == <<(IF direction = GIT2HG THEN HG2GIT ELSE GIT2HG),
                            storage[<<direction, id>>]>>
              IN  /\ back \in DOMAIN storage
                  /\ Truthy(storage[back]) => storage[back] = id

\* A Mercurial id was typed, converted to its Git id and that one converted
\* back, both conversions now being in the cache; a later check of the
\* latest commit has resolved another pair with that cache.
C17_Witness ==
    /\ Resolved
    /\ requests[1][1] = "GET_LATEST_SHA"
    /\ gitSha = "g2" /\ hgSha = "h2"
    /\ storage[<<HG2GIT, "h1">>] = "g1"
    /\ storage[<<GIT2HG, "g1">>] = "h1"

----------------------------------------------------------------------------
(* Claims about the CI data                                                *)

PushDataReturned == pushDataOut.returned
JobsQueries == {i \in 1..Len(pushDataOut.requests) : pushDataOut.requests[i].query = "jobs"}
NOT_FOUND == "No push data found for Mercurial SHA"

\* C18: when the push lookup answers with no results (none at all, or an
\* empty list), getPushData fails with the not-found error and sends no jobs
\* query; whenever it sends a jobs query, that is the second query, after the
\* push query, and carries the id of the first push of the results; and the
\* push it returns is that first push.
C18_NoPushNoJobsQuery ==
    PushDataReturned =>
        LET pushData == pushResponse.data IN
        /\ (pushResponse.kind = "json"
              /\ (~pushData.hasResults \/ pushData.results = <<>>))
           => /\ pushDataOut.threw
              /\ pushDataOut.error = NOT_FOUND
              /\ JobsQueries = {}
        /\ JobsQueries /= {}
           => /\ JobsQueries = {2}
              /\ pushDataOut.requests[1].query = "push"
              /\ pushResponse.kind = "json" /\ pushData.results /= <<>>
              /\ pushDataOut.requests[2].push_id = pushData.results[1].id
        /\ ~pushDataOut.threw
           => /\ pushDataOut.push = pushData.results[1]
              /\ JobsQueries = {2}

\* The lookup answered with an empty list of results: not found, one query.
C18_Witness ==
    /\ PushDataReturned
    /\ pushResponse.kind = "json"
    /\ pushResponse.data.hasResults /\ pushResponse.data.results = <<>>
    /\ pushDataOut.error = NOT_FOUND
    /\ Len(pushDataOut.requests) = 1

\* C19: the job list has one record per row of the payload, in row order,
\* and the record of a row maps the i-th field name to the i-th value of the
\* row (undefined where the row has no i-th value) and has no other field; a
\* payload without results or without a list of field names gives the empty
\* job list.
C19_RowsZippedWithNames ==
    (PushDataReturned /\ ~pushDataOut.threw) =>
        LET jobsData == jobsResponse.data
            names == jobsData.job_property_names
            jobs == pushDataOut.trainhopJobs
        IN  IF ~jobsData.hasResults \/ ~jobsData.hasNames
            THEN jobs = <<>>
            ELSE /\ Len(jobs) = Len(jobsData.results)
                 /\ \A r \in 1..Len(jobs) :
                       /\ DOMAIN jobs[r] = Range(names)
                       /\ \A i \in 1..Len(names) :
                             jobs[r][names[i]] =
                                 (IF i <= Len(jobsData.results[r])
                                  THEN jobsData.results[r][i] ELSE Undefined)

\* Two rows with different second values under two field names.
C19_Witness ==
    /\ PushDataReturned /\ ~pushDataOut.threw
    /\ Len(pushDataOut.trainhopJobs) = 2
    /\ jobsResponse.data.job_property_names = <<"id", "state">>
    /\ pushDataOut.trainhopJobs[1]["state"] = "a"
    /\ pushDataOut.trainhopJobs[2]["state"] = "b"
    /\ pushDataOut.trainhopJobs[2]["id"] = "a"

\* C23: a payload with a row whose length differs from the number of field
\* names is treated as an error: getPushData does not return a job list for
\* it.
C23_LengthMismatchIsError ==
    LET jobsData == jobsResponse.data IN
    (/\ PushDataReturned
     /\ Len(pushDataOut.requests) = 2
     /\ jobsResponse.kind = "json"
     /\ jobsData.hasResults /\ jobsData.hasNames
     /\ \E r \in 1..Len(jobsData.results) :
           Len(jobsData.results[r]) /= Len(jobsData.job_property_names))
    => pushDataOut.threw

----------------------------------------------------------------------------
(* Claims about handleMessage                                              *)

\* The messages of the errors the handlers throw.
ErrorMessages ==
    {ConversionError(d) : d \in Directions}
        \cup UNION {BranchErrors[b] : b \in Branches}
        \cup {"SHA not found in repository", "Failed to validate SHA", "No commits found",
              "Failed to fetch commits", NETWORK_ERROR, SYNTAX_ERROR,
              "Unknown message type"}

\* C20: every message that has been answered, of a known type or not, with
\* its upstream calls succeeding or failing and with other messages handled
\* meanwhile, was answered either with { success: true, data } or with
\* { success: false, error } where error is the message of what failed, never
\* with a rejection; a message of an unknown type is answered at once, with
\* the 'Unknown message type' failure, and no other message is.
C20_AlwaysAResponse ==
    \A p \in Callers :
        /\ (received[p] /= NoMessage /\ response[p] /= NoReply) =>
              \/ response[p].success /\ response[p].error = ""
              \/ ~response[p].success /\ response[p].data = Undefined
                                      /\ response[p].error \in ErrorMessages
        /\ (received[p] /= NoMessage /\ received[p].type \notin MessageTypes)
              => response[p] = Failure("Unknown message type")
        /\ (received[p].type \in MessageTypes /\ ~response[p].success)
              => response[p].error /= "Unknown message type"
        /\ (received[p].type \in {"GET_HG_SHA", "GET_GIT_SHA"} /\ response[p] /= NoReply)
              => response[p] = reply[p]

\* Two GET_HG_SHA messages for one commit were handled at the same time: one
\* was answered with the Mercurial SHA, which is in the cache since, the
\* other with the failure of its own conversion request.
C20_Witness ==
    \E p, q \in Callers :
        /\ received[p] = [type |-> "GET_HG_SHA", id |-> "g1"]
        /\ received[q] = received[p]
        /\ response[p] = Success("h1")
        /\ response[q] = Failure(ConversionError(GIT2HG))
        /\ storage[CacheKey(GIT2HG, "g1")] = "h1"

----------------------------------------------------------------------------
(* Claims about TrainCheckApp's loading flag, prompts and input field      *)

\* C22: whenever #checkTrainStatus is not running (before the first check
\* and after a check has ended, by success, by a caught error or by a
\* declined date prompt), loading is false and the button is enabled, so
\* that a new check can be started; and while it runs loading is true.
C22_LoadingFollowsCheck ==
    /\ loading <=> (pc /= "idle")
    /\ pc = "idle" => ~buttonDisabled

Prompts == {"PROMPT_BETA", "PROMPT_RELEASE"}
PromptedDate(data, at) ==
    IF at = "PROMPT_BETA" THEN data.betaStartDate ELSE data.releaseStartDate
PromptedFor(at) == IF at = "PROMPT_BETA" THEN "beta" ELSE "release"
DATES_REQUIRED == {BETA_REQUIRED, RELEASE_REQUIRED}

\* What a step taken while a date prompt is open may change.
PromptStep ==
    /\ alerted' /= alerted
         => /\ pc' = pc
            /\ revisionData' = revisionData
            /\ results' = results
            /\ declined' = declined
    /\ PromptedDate(revisionData', pc) /= PromptedDate(revisionData, pc)
         => /\ IsISODate(PromptedDate(revisionData', pc))
            /\ declined' = "none"
    /\ pc' /= pc
         => \/ /\ declined' = PromptedFor(pc)
               /\ pc' = "idle"
               /\ results'.status \in DATES_REQUIRED
               /\ ~results'.hasRevisionData
               /\ PromptedDate(revisionData', pc) = NullDate
            \/ /\ declined' = "none"
               /\ IsISODate(PromptedDate(revisionData', pc))
    /\ failedAt' = "none"
    /\ (results' /= results) => (results'.status /= ERROR)

\* C24: while the operator is prompted for a date, an input that is not a
\* valid date changes nothing but the alert shown, and the prompt stays
\* open; the date is only ever set to a real calendar date; the prompt is
\* left only by a valid date or by a cancelled input; and a cancelled input
\* ends the check with the 'date required' results of that date, not with
\* the error results.
C24_PromptRepeats == [][(pc \in Prompts) => PromptStep]_vars

\* An invalid input was answered with the alert, the prompt came again and
\* was cancelled: the check has ended with the 'beta date required' results.
C24_Witness ==
    /\ alerted
    /\ declined = "beta"
    /\ pc = "idle"
    /\ results.status = BETA_REQUIRED
    /\ failedAt = "none"

\* C25: in the step in which a check started from a blank input fills the
\* input field with the latest Git SHA, the kind selected is (and stays) Git,
\* so that input and kind name the same commit when the check is run again.
C25_FilledInputIsGit ==
    [][(pc = "GET_HG_SHA_LATEST" /\ sha' /= sha /\ sha' = TextOf(gitSha))
          => (shaType = SHA_TYPE_GIT /\ shaType' = SHA_TYPE_GIT)]_vars

====
